---- MODULE Spec2Model ----
(***************************************************************************)
(* pypulseaudio: the synchronous facade over the callback-driven           *)
(* libpulse client API (src/pypulseaudio/__init__.py).                     *)
(*                                                                         *)
(* Each PulseAudio object has one caller.  A caller is either idle or      *)
(* inside one of the blocking wrappers (wait_state_change, wait_callback), *)
(* where it alternates between pa_mainloop_iterate and the loop test.      *)
(* The native library is the environment: a native call queues the         *)
(* callback invocations it will make, and pa_mainloop_iterate dispatches   *)
(* queued callbacks and state-change notifications on the calling thread.  *)
(***************************************************************************)
EXTENDS Integers, Sequences, FiniteSets, TLC

\* ---- bounds -------------------------------------------------------------
MaxCalls == 3        \* public calls made in one run
MaxVals == 2         \* value-bearing invocations of one list operation
MaxDispatch == 2     \* events dispatched by one pa_mainloop_iterate
MaxNotes == 2        \* state-change notifications delivered in one run
MaxCallsTwo == 2     \* public calls made in one run of two objects
MaxNotesTwo == 1     \* notifications delivered in one run of two objects

\* ---- the connection states (state_map, lines 8-19) ----------------------
PA_CONTEXT_UNCONNECTED == "unconnected"
PA_CONTEXT_CONNECTING == "connecting"
PA_CONTEXT_AUTHORIZING == "authorizing"
PA_CONTEXT_SETTING_NAME == "setting name"
PA_CONTEXT_READY == "ready"
PA_CONTEXT_FAILED == "failed"
PA_CONTEXT_TERMINATED == "terminated"

state_map ==
    {PA_CONTEXT_AUTHORIZING, PA_CONTEXT_CONNECTING, PA_CONTEXT_FAILED,
     PA_CONTEXT_READY, PA_CONTEXT_SETTING_NAME, PA_CONTEXT_TERMINATED,
     PA_CONTEXT_UNCONNECTED}

\* Python's None as the value of the state attribute (line 96)
NoState == "None"

\* ---- values handed through the registry ---------------------------------
\* A value is [op |-> id of the call whose native submission produced it,
\*             data |-> the payload].  NoneValue is Python's None.
NoneValue == [op |-> 0, data |-> -1]

\* ---- the public methods and the callback each one waits on --------------
\* The card, module-load and profile methods are modelled; the sink, source
\* and module-info methods (lines 236-428) repeat the card methods with
\* another callback name and are left out.
ListMethods == {"get_card_info_list"}

LookupMethods == {"get_card_info_by_index", "get_card_info_by_name"}

SingleMethods ==
    {"load_module", "unload_module", "set_card_profile_by_index",
     "set_card_profile_by_name"}

Methods == ListMethods \cup LookupMethods \cup SingleMethods

\* the name given to the wait_callback decorator of each method
wait_callback_name(m) ==
    CASE m = "load_module" -> "_context_index_cb"
      [] m \in ListMethods \cup LookupMethods -> "_card_info_cb"
      [] OTHER -> "_context_success_cb"

CallbackNames == {wait_callback_name(m) : m \in Methods}

\* the state each wait_state_change wrapper waits for (lines 124, 144)
required_state(m) ==
    IF m = "connect" THEN PA_CONTEXT_READY ELSE PA_CONTEXT_TERMINATED

\* ---- Python dicts: a function whose DOMAIN is the set of keys -----------
EmptyDict == [k \in {} |-> FALSE]

DictSet(d, k, v) == [x \in DOMAIN d \cup {k} |-> IF x = k THEN v ELSE d[x]]

DictGet(d, k, default) == IF k \in DOMAIN d THEN d[k] ELSE default

DictPop(d, k) == [x \in DOMAIN d \ {k} |-> d[x]]

\* ---- state --------------------------------------------------------------
VARIABLES
    objs,        \* the PulseAudio objects of this run
    limits,      \* the bounds of this run on calls and notifications
    app_name,    \* self._app_name; "" when none was given
    handles,     \* self.__main_loop, self.__api, self.__context; 0 is None
    state,       \* self.state
    cb_event,    \* PulseAudio._cb_event, the class attribute (one dict)
    cb_return,   \* PulseAudio._cb_return, the class attribute (one dict)
    pc,          \* where each object's caller is
    cur,         \* the public method the caller is in, or was in last
    call_id,     \* the number of that call
    result,      \* how that call ended
    ncalls,      \* public calls made so far
    lib,         \* native side: objects created, adapters installed
    ctx_state,   \* native side: pa_context_get_state(context)
    pending,     \* native side: callback invocations queued per object
    notified,    \* a state-change notification has been delivered
    nnotes,      \* state-change notifications delivered so far
    fired,       \* values the callbacks were invoked with since registration
    signalled,   \* the native layer made its last invocation since then
    at_register, \* the registry entry as it was found at registration
    handed,      \* per callback name: values have been returned under it
    at_call,     \* what connect or disconnect found when it was entered
    trace        \* in the current call: runs of f(*args), loop iterated

vars ==
    <<objs, limits, app_name, handles, state, cb_event, cb_return, pc, cur, call_id,
      result, ncalls, lib, ctx_state, pending, notified, nnotes, fired,
      signalled, at_register, handed, at_call, trace>>

AllObjs == {"A", "B"}

NoName == ""

\* ---- results of a call --------------------------------------------------
Running == [kind |-> "running", list |-> <<>>]

ReturnNone == [kind |-> "None", list |-> <<>>]

ReturnList(l) == [kind |-> "list", list |-> l]

Raise(e) == [kind |-> e, list |-> <<>>]

\* ---- ConnectionContext: the lazily built tiers (lines 102-122) ----------
\* t is [h |-> handles of the object, n |-> native counters of the object]
_main_loop(t) ==
    IF t.h.main_loop = 0
    THEN [h |-> [t.h EXCEPT !.main_loop = t.n.loops + 1],
          n |-> [t.n EXCEPT !.loops = @ + 1]]
    ELSE t

\* the api property, were it to read __main_loop and not the property
_api_raw_loop(t) ==
    IF t.h.api = 0
    THEN [h |-> [t.h EXCEPT !.api = t.n.apis + 1],
          n |-> [t.n EXCEPT !.apis = @ + 1]]
    ELSE t

_api(t) ==
    IF t.h.api = 0
    THEN LET t1 == _main_loop(t)
         IN [h |-> [t1.h EXCEPT !.api = t1.n.apis + 1],
             n |-> [t1.n EXCEPT !.apis = @ + 1]]
    ELSE t

\* the context property, were it to build the api before testing the name
_context_api_first(t, name) ==
    IF t.h.context = 0
    THEN LET t1 == _api(t)
         IN IF name = NoName
            THEN [raised |-> TRUE, h |-> t1.h, n |-> t1.n]
            ELSE [raised |-> FALSE,
                  h |-> [t1.h EXCEPT !.context = t1.n.contexts + 1],
                  n |-> [t1.n EXCEPT !.contexts = @ + 1,
                                     !.state_callbacks = @ + 1]]
    ELSE [raised |-> FALSE, h |-> t.h, n |-> t.n]

\* the context property, were it to build a new context at every read
_context_uncached(t, name) ==
    IF name = NoName
    THEN [raised |-> TRUE, h |-> t.h, n |-> t.n]
    ELSE LET t1 == _api(t)
         IN [raised |-> FALSE,
             h |-> [t1.h EXCEPT !.context = t1.n.contexts + 1],
             n |-> [t1.n EXCEPT !.contexts = @ + 1,
                                !.state_callbacks = @ + 1]]

\* the context property; raised is TRUE when it raises NameError
_context(t, name) ==
    IF t.h.context = 0
    THEN IF name = NoName
         THEN [raised |-> TRUE, h |-> t.h, n |-> t.n]
         ELSE LET t1 == _api(t)
              IN [raised |-> FALSE,
                  h |-> [t1.h EXCEPT !.context = t1.n.contexts + 1],
                  n |-> [t1.n EXCEPT !.contexts = @ + 1,
                                     !.state_callbacks = @ + 1]]
    ELSE [raised |-> FALSE, h |-> t.h, n |-> t.n]

\* ---- the callback adapters (lines 482-557) ------------------------------
\* each returns <<value, is_last>>; the record translation is a pass-through
_card_info_cb(card_info, eol) ==
    IF eol THEN <<NoneValue, TRUE>> ELSE <<card_info, FALSE>>

_context_index_cb(index) == <<index, TRUE>>

_context_success_cb(success) == <<success, TRUE>>

\* the adapter named name applied to one native invocation
cb(name, ev) ==
    CASE name = "_card_info_cb" -> _card_info_cb(ev.arg, ev.eol)
      [] name = "_context_index_cb" -> _context_index_cb(ev.arg)
      [] OTHER -> _context_success_cb(ev.arg)

\* ---- the callback decorator (lines 22-35) -------------------------------
\* push, with the new value put first
callback_push_front(name, value, R) ==
    IF value # NoneValue
    THEN DictSet(R, name, <<value>> \o DictGet(R, name, <<>>))
    ELSE R

\* push, with "if value:" for "if value is not None:"
callback_push_truthy(name, value, R) ==
    IF value # NoneValue /\ value.data # 0
    THEN DictSet(R, name, DictGet(R, name, <<>>) \o <<value>>)
    ELSE R

\* push: lines 30-32
callback_push(name, value, R) ==
    IF value # NoneValue
    THEN DictSet(R, name, DictGet(R, name, <<>>) \o <<value>>)
    ELSE R

\* signal_done, were the flag never set
callback_done_lost(name, is_last, E) == E

\* signal_done: lines 33-34
callback_done(name, is_last, E) ==
    IF is_last THEN DictSet(E, name, TRUE) ELSE E

\* ---- the state-change notification handler (lines 478-480) ---------------
\* the handler, were it to ignore notifications after failed or terminated
_state_changed_cb_final(old, native_state) ==
    IF old \in {PA_CONTEXT_FAILED, PA_CONTEXT_TERMINATED}
    THEN old ELSE native_state

_state_changed_cb(old, native_state) == native_state

\* ---- the registry operations of wait_callback (lines 50-56) -------------
\* the guard, were it to refuse only a closed connection
guard_open(s) == s \notin {PA_CONTEXT_FAILED, PA_CONTEXT_TERMINATED}

\* the ready guard, line 50
guard(s) == s = PA_CONTEXT_READY

\* register, were it to create the flag only when the name has none
register_setdefault(name, E) ==
    IF name \in DOMAIN E THEN E ELSE DictSet(E, name, FALSE)

\* register, line 51
register(name, E) == DictSet(E, name, FALSE)

\* the completion test, line 55
completed(name, E) == E[name]

\* the exit test, were it to give up on a closed connection as well
exit_test_or_closed(name, E, s) ==
    completed(name, E) \/ s \in {PA_CONTEXT_FAILED, PA_CONTEXT_TERMINATED}

\* the exit test of the wait loop, lines 53-55: the flag alone decides,
\* self.state (s) is not read again after line 50
exit_test(name, E, s) == completed(name, E)

\* drain, line 56: dict.pop without a default raises KeyError on a missing key
drain_raises(name, R) == name \notin DOMAIN R

drain_value(name, R) == R[name]

\* drain, were it to read the entry and leave it in place
drain_rest_keep(name, R) == R

drain_rest(name, R) == DictPop(R, name)

\* ---- the native library (the environment) -------------------------------
\* The callback invocations a native call will make: a list operation
\* fires 0..MaxVals times with a record and once with the end-of-list
\* marker; a lookup fires at most once with a record and then with the
\* marker; a single-value operation fires once with its value.  last marks
\* the invocation after which the native layer makes no other for the call.
Val(id, d) == [op |-> id, data |-> d]

Marker(name) == [cb |-> name, arg |-> NoneValue, eol |-> TRUE, last |-> TRUE]

ListReply(name, id, n) ==
    [i \in 1..n |->
        [cb |-> name, arg |-> Val(id, i), eol |-> FALSE, last |-> FALSE]]
        \o <<Marker(name)>>

NativeReplies(m, id) ==
    LET name == wait_callback_name(m)
    IN IF m \in ListMethods
       THEN {ListReply(name, id, n) : n \in 0..MaxVals}
       ELSE IF m \in LookupMethods
       THEN {ListReply(name, id, n) : n \in 0..1}
       ELSE {<<[cb |-> name, arg |-> Val(id, d), eol |-> FALSE,
                 last |-> TRUE]>> : d \in 0..1}

\* ---- pa_mainloop_iterate (lines 54, 73) ---------------------------------
\* One iteration dispatches up to MaxDispatch events on the calling thread:
\* "cb" is the next queued callback invocation of the object, a state is a
\* state-change notification carrying it.  w holds what dispatching touches.
EventKinds == {"cb"} \cup state_map

Dispatches == UNION {[1..n -> EventKinds] : n \in 0..MaxDispatch}

DispatchOne(w, e) ==
    IF ~w.ok THEN w
    ELSE IF e = "cb"
    THEN IF w.pending = <<>> THEN [w EXCEPT !.ok = FALSE]
         ELSE LET ev == Head(w.pending)
                  ret == cb(ev.cb, ev)
              IN [w EXCEPT
                    !.pending = Tail(w.pending),
                    !.R = callback_push(ev.cb, ret[1], w.R),
                    !.E = callback_done(ev.cb, ret[2], w.E),
                    !.fired = IF ev.arg # NoneValue
                              THEN w.fired \o <<ev.arg>> ELSE w.fired,
                    !.signalled = w.signalled \/ ev.last]
    ELSE IF w.adapters = 0 \/ e = w.ctx_state \/ w.nnotes >= w.max_notes
         THEN [w EXCEPT !.ok = FALSE]
         ELSE [w EXCEPT !.ctx_state = e,
                        !.nnotes = @ + 1,
                        !.state = _state_changed_cb(w.state, e),
                        !.notified = TRUE]

RECURSIVE DispatchAll(_, _, _)
DispatchAll(w, evs, i) ==
    IF i > Len(evs) THEN w ELSE DispatchAll(DispatchOne(w, evs[i]), evs, i + 1)

\* the iteration, were it to refresh self.state from the native context
World_polling(o) ==
    [ok |-> TRUE, state |-> IF ctx_state[o] = NoState THEN state[o]
                            ELSE ctx_state[o],
     ctx_state |-> ctx_state[o],
     notified |-> notified[o], nnotes |-> nnotes,
     max_notes |-> limits.notes, E |-> cb_event, R |-> cb_return,
     pending |-> pending[o], fired |-> fired[o], signalled |-> signalled[o],
     adapters |-> lib[o].state_callbacks]

World(o) ==
    [ok |-> TRUE, state |-> state[o], ctx_state |-> ctx_state[o],
     notified |-> notified[o], nnotes |-> nnotes,
     max_notes |-> limits.notes, E |-> cb_event, R |-> cb_return,
     pending |-> pending[o], fired |-> fired[o], signalled |-> signalled[o],
     adapters |-> lib[o].state_callbacks]

\* the effect of one iteration on the variables, for the events evs
pa_mainloop_iterate(o, evs) ==
    LET w == DispatchAll(World(o), evs, 1)
    IN /\ w.ok
       /\ state' = [state EXCEPT ![o] = w.state]
       /\ ctx_state' = [ctx_state EXCEPT ![o] = w.ctx_state]
       /\ notified' = [notified EXCEPT ![o] = w.notified]
       /\ nnotes' = w.nnotes
       /\ cb_event' = w.E
       /\ cb_return' = w.R
       /\ pending' = [pending EXCEPT ![o] = w.pending]
       /\ fired' = [fired EXCEPT ![o] = w.fired]
       /\ signalled' = [signalled EXCEPT ![o] = w.signalled]

\* what a call finds at entry: the handles, the state and the registry
Snapshot(o) ==
    [handles |-> handles[o], state |-> state[o], E |-> cb_event,
     R |-> cb_return]

\* ---- construction --------------------------------------------------------
\* lines 90-100: every attribute of a new object reads as the class attribute
Init ==
    /\ objs = {"A"}
    /\ limits = [calls |-> MaxCalls, notes |-> MaxNotes]
    /\ app_name \in [AllObjs -> {"app", NoName}]
    /\ app_name["B"] = "app"
    /\ handles = [o \in AllObjs |-> [main_loop |-> 0, api |-> 0, context |-> 0]]
    /\ state = [o \in AllObjs |-> NoState]
    /\ cb_event = EmptyDict
    /\ cb_return = EmptyDict
    /\ pc = [o \in AllObjs |-> "idle"]
    /\ cur = [o \in AllObjs |-> "none"]
    /\ call_id = [o \in AllObjs |-> 0]
    /\ result = [o \in AllObjs |-> ReturnNone]
    /\ ncalls = 0
    /\ lib = [o \in AllObjs |->
                [loops |-> 0, apis |-> 0, contexts |-> 0, state_callbacks |-> 0]]
    /\ ctx_state = [o \in AllObjs |-> NoState]
    /\ pending = [o \in AllObjs |-> <<>>]
    /\ notified = [o \in AllObjs |-> FALSE]
    /\ nnotes = 0
    /\ fired = [o \in AllObjs |-> <<>>]
    /\ signalled = [o \in AllObjs |-> FALSE]
    /\ at_register = [o \in AllObjs |-> [done |-> FALSE, results |-> <<>>, handed |-> FALSE]]
    /\ handed = [n \in CallbackNames |-> FALSE]
    /\ at_call = [o \in AllObjs |-> Snapshot(o)]
    /\ trace = [o \in AllObjs |-> [acts |-> 0, pumped |-> FALSE]]

\* Two objects, each with its own caller, after connect() has returned on
\* both: the tiers are built and the state is ready.  The calls and the
\* notifications of the run are counted from here.
InitTwo ==
    /\ objs = AllObjs
    /\ limits = [calls |-> MaxCallsTwo, notes |-> MaxNotesTwo]
    /\ app_name = [o \in AllObjs |-> "app"]
    /\ handles = [o \in AllObjs |-> [main_loop |-> 1, api |-> 1, context |-> 1]]
    /\ state = [o \in AllObjs |-> PA_CONTEXT_READY]
    /\ cb_event = EmptyDict
    /\ cb_return = EmptyDict
    /\ pc = [o \in AllObjs |-> "idle"]
    /\ cur = [o \in AllObjs |-> "connect"]
    /\ call_id = [o \in AllObjs |-> 0]
    /\ result = [o \in AllObjs |-> ReturnNone]
    /\ ncalls = 0
    /\ lib = [o \in AllObjs |->
                [loops |-> 1, apis |-> 1, contexts |-> 1, state_callbacks |-> 1]]
    /\ ctx_state = [o \in AllObjs |-> PA_CONTEXT_READY]
    /\ pending = [o \in AllObjs |-> <<>>]
    /\ notified = [o \in AllObjs |-> TRUE]
    /\ nnotes = 0
    /\ fired = [o \in AllObjs |-> <<>>]
    /\ signalled = [o \in AllObjs |-> FALSE]
    /\ at_register = [o \in AllObjs |-> [done |-> FALSE, results |-> <<>>, handed |-> FALSE]]
    /\ handed = [n \in CallbackNames |-> FALSE]
    /\ at_call = [o \in AllObjs |-> Snapshot(o)]
    /\ trace = [o \in AllObjs |-> [acts |-> 0, pumped |-> FALSE]]

\* the bookkeeping of entering a public method
Enter(o, m) ==
    /\ pc[o] = "idle"
    /\ ncalls < limits.calls
    /\ ncalls' = ncalls + 1
    /\ cur' = [cur EXCEPT ![o] = m]
    /\ call_id' = [call_id EXCEPT ![o] = ncalls + 1]

\* ---- wait_state_change (lines 61-75) ------------------------------------
\* the loop condition, were it to give up on a failed connection
keep_waiting_unless_failed(s, required) ==
    s # required /\ s # PA_CONTEXT_FAILED

\* the loop condition, were it to wait only while the connection is good
keep_waiting_while_good(s, required) ==
    s # required /\ s \notin {PA_CONTEXT_FAILED, PA_CONTEXT_TERMINATED}

\* the loop condition of line 72
keep_waiting(s, required) == s # required

\* f(*args), were it to be skipped when the state is the required one already
action_runs_if_needed(s, required) == s # required

\* line 71: f(*args) runs whatever the state is
action_runs(s, required) == TRUE

\* line 71, f(*args): connect and disconnect read self._context and make the
\* native call; then the first test of line 72
wait_state_change_call(o, m) ==
    LET t == [h |-> handles[o], n |-> lib[o]]
        runs == action_runs(state[o], required_state(m))
        c == IF runs THEN _context(t, app_name[o])
             ELSE [raised |-> FALSE, h |-> t.h, n |-> t.n]
    IN /\ Enter(o, m)
       /\ handles' = [handles EXCEPT ![o] = c.h]
       /\ lib' = [lib EXCEPT ![o] = c.n]
       /\ ctx_state' = [ctx_state EXCEPT ![o] =
                          IF @ = NoState /\ c.h.context # 0
                          THEN PA_CONTEXT_UNCONNECTED ELSE @]
       /\ IF c.raised
          THEN /\ result' = [result EXCEPT ![o] = Raise("NameError")]
               /\ pc' = pc
          ELSE IF keep_waiting(state[o], required_state(m))
          THEN /\ result' = [result EXCEPT ![o] = Running]
               /\ pc' = [pc EXCEPT ![o] = "wait_state"]
          ELSE /\ result' = [result EXCEPT ![o] = ReturnNone]
               /\ pc' = pc
       /\ at_call' = [at_call EXCEPT ![o] = Snapshot(o)]
       /\ trace' = [trace EXCEPT ![o] =
                      [acts |-> IF runs THEN 1 ELSE 0, pumped |-> FALSE]]
       /\ UNCHANGED <<objs, limits, app_name, state, cb_event, cb_return, pending,
                      notified, nnotes, fired, signalled, at_register, handed>>

connect(o) == wait_state_change_call(o, "connect")

disconnect(o) == wait_state_change_call(o, "disconnect")

\* lines 72-73: one iteration, then the test
wait_state_change_iterate(o) ==
    /\ pc[o] = "wait_state"
    /\ \E evs \in Dispatches : pa_mainloop_iterate(o, evs)
    /\ IF keep_waiting(state'[o], required_state(cur[o]))
       THEN /\ pc' = pc
            /\ result' = result
       ELSE /\ pc' = [pc EXCEPT ![o] = "idle"]
            /\ result' = [result EXCEPT ![o] = ReturnNone]
    /\ trace' = [trace EXCEPT ![o].pumped = TRUE]
    /\ UNCHANGED <<objs, limits, app_name, handles, cur, call_id, ncalls, lib,
                   at_register, handed, at_call>>

\* ---- wait_callback (lines 38-58) ----------------------------------------
\* lines 50-51: the guard and the registration; not ready: falls through
\* and returns None
wait_callback_call(o, m) ==
    /\ Enter(o, m)
    /\ IF guard(state[o])
       THEN /\ cb_event' = register(wait_callback_name(m), cb_event)
            /\ pc' = [pc EXCEPT ![o] = "submit"]
            /\ result' = [result EXCEPT ![o] = Running]
            /\ fired' = [fired EXCEPT ![o] = <<>>]
            /\ signalled' = [signalled EXCEPT ![o] = FALSE]
            /\ at_register' = [at_register EXCEPT ![o] =
                  [done |-> DictGet(cb_event, wait_callback_name(m), FALSE),
                   results |-> DictGet(cb_return, wait_callback_name(m), <<>>),
                   handed |-> handed[wait_callback_name(m)]]]
       ELSE /\ cb_event' = cb_event
            /\ pc' = pc
            /\ result' = [result EXCEPT ![o] = ReturnNone]
            /\ UNCHANGED <<fired, signalled, at_register>>
    /\ trace' = [trace EXCEPT ![o] = [acts |-> 0, pumped |-> FALSE]]
    /\ UNCHANGED <<objs, limits, app_name, handles, state, cb_return, lib, ctx_state,
                   pending, notified, nnotes, handed, at_call>>

\* line 52, f(*args): the native call is submitted
wait_callback_submit(o) ==
    /\ pc[o] = "submit"
    /\ \E reply \in NativeReplies(cur[o], call_id[o]) :
          pending' = [pending EXCEPT ![o] = @ \o reply]
    /\ pc' = [pc EXCEPT ![o] = "iterate"]
    /\ trace' = [trace EXCEPT ![o].acts = @ + 1]
    /\ UNCHANGED <<objs, limits, app_name, handles, state, cb_event, cb_return, cur,
                   call_id, result, ncalls, lib, ctx_state, notified, nnotes,
                   fired, signalled, at_register, handed, at_call>>

\* line 54
wait_callback_iterate(o) ==
    /\ pc[o] = "iterate"
    /\ \E evs \in Dispatches : pa_mainloop_iterate(o, evs)
    /\ pc' = [pc EXCEPT ![o] = "check"]
    /\ trace' = [trace EXCEPT ![o].pumped = TRUE]
    /\ UNCHANGED <<objs, limits, app_name, handles, cur, call_id, result, ncalls, lib,
                   at_register, handed, at_call>>

\* lines 55-56
wait_callback_check(o) ==
    LET name == wait_callback_name(cur[o])
    IN /\ pc[o] = "check"
       /\ IF exit_test(name, cb_event, state[o])
          THEN /\ pc' = [pc EXCEPT ![o] = "idle"]
               /\ IF drain_raises(name, cb_return)
                  THEN /\ result' = [result EXCEPT ![o] = Raise("KeyError")]
                       /\ cb_return' = cb_return
                       /\ handed' = handed
                  ELSE /\ result' = [result EXCEPT ![o] =
                                       ReturnList(drain_value(name, cb_return))]
                       /\ cb_return' = drain_rest(name, cb_return)
                       /\ handed' = [handed EXCEPT ![name] = TRUE]
          ELSE /\ pc' = [pc EXCEPT ![o] = "iterate"]
               /\ result' = result
               /\ cb_return' = cb_return
               /\ handed' = handed
       /\ UNCHANGED <<objs, limits, app_name, handles, state, cb_event, cur, call_id,
                      ncalls, lib, ctx_state, pending, notified, nnotes,
                      fired, signalled, at_register, at_call, trace>>

Next ==
    \E o \in objs :
        \/ connect(o)
        \/ disconnect(o)
        \/ wait_state_change_iterate(o)
        \/ \E m \in Methods : wait_callback_call(o, m)
        \/ wait_callback_submit(o)
        \/ wait_callback_iterate(o)
        \/ wait_callback_check(o)

Spec == Init /\ [][Next]_vars

SpecTwo == InitTwo /\ [][Next]_vars

\* ---- properties ----------------------------------------------------------
\* the caller of o is back from a wait_callback method that passed the guard
Returned(o) ==
    /\ pc[o] = "idle"
    /\ cur[o] \in Methods
    /\ result[o].kind \in {"list", "KeyError"}

\* the step is the entry of the caller of o into method m
Entering(o, m) ==
    /\ pc[o] = "idle"
    /\ call_id'[o] # call_id[o]
    /\ cur'[o] = m

\* C1: an operation invoked in the ready state whose callback the native
\* layer invoked N >= 1 times with a value and then with the end-of-data
\* marker returns exactly those N values, in invocation order, and nothing
\* that stands for the marker.
C1_ReturnsFiredValuesInOrder ==
    \A o \in objs :
        (Returned(o) /\ Len(fired[o]) >= 1) =>
            /\ result[o].kind = "list"
            /\ result[o].list = fired[o]
            /\ \A i \in 1..Len(result[o].list) : result[o].list[i] # NoneValue

\* a list operation has returned two values
C1_Witness ==
    \E o \in objs :
        /\ Returned(o)
        /\ cur[o] = "get_card_info_list"
        /\ result[o].kind = "list"
        /\ Len(result[o].list) = 2
        /\ result[o].list[1].data = 1
        /\ result[o].list[2].data = 2

\* C2: a list-returning operation invoked in the ready state for which the
\* native layer delivers only the end-of-data marker drains successfully and
\* returns the empty sequence.
C2_EmptyReplyReturnsEmptyList ==
    \A o \in objs :
        (Returned(o) /\ cur[o] \in ListMethods \cup LookupMethods
            /\ fired[o] = <<>>) =>
            result[o] = ReturnList(<<>>)

\* C3: a facade operation invoked while the state is not ready is a no-op: no
\* native call is queued, the loop is not pumped (the caller stays idle), the
\* registry is unchanged and None is returned.
C3_NotReadyIsNoOp ==
    [][\A o \in objs : \A m \in Methods :
          (Entering(o, m) /\ state[o] # PA_CONTEXT_READY) =>
              /\ pending' = pending
              /\ cb_event' = cb_event
              /\ cb_return' = cb_return
              /\ state' = state
              /\ pc'[o] = "idle"
              /\ result'[o] = ReturnNone]_vars

\* an operation was invoked on a failed connection and returned None
C3_Witness ==
    \E o \in objs :
        /\ pc[o] = "idle"
        /\ cur[o] \in Methods
        /\ result[o] = ReturnNone
        /\ state[o] = PA_CONTEXT_FAILED

\* C4: when connect returns the state is ready, and when disconnect returns
\* the state is terminated, whatever notifications were delivered meanwhile.
C4_WaitReturnsAtTarget ==
    \A o \in objs :
        (pc[o] = "idle" /\ cur[o] \in {"connect", "disconnect"}
            /\ result[o] = ReturnNone) =>
            state[o] = required_state(cur[o])

\* connect, the first call of the run, returned after two notifications
C4_Witness ==
    \E o \in objs :
        /\ pc[o] = "idle"
        /\ cur[o] = "connect"
        /\ result[o] = ReturnNone
        /\ ncalls = 1
        /\ nnotes = 2

\* C5: an operation comes back from its wait only if the native layer made
\* the terminal invocation after the operation's own registration, also
\* when the flag of its name was left true by an earlier operation.
C5_ReturnsOnlyAfterOwnSignal ==
    \A o \in objs : Returned(o) => signalled[o]

\* an operation returned whose flag read true when it registered
C5_Witness ==
    \E o \in objs : Returned(o) /\ at_register[o].done /\ signalled[o]

\* C6: values pushed under a name before an operation registers under it
\* never appear in what that operation returns (register empties the
\* results).
C6_NoStaleResults ==
    \A o \in objs :
        (Returned(o) /\ result[o].kind = "list") =>
            \A i \in 1..Len(result[o].list) :
                \A j \in 1..Len(at_register[o].results) :
                    result[o].list[i] # at_register[o].results[j]

\* C7: in a sequence of sequential operations every returned sequence holds
\* only values produced for that very call, each once, also when an earlier
\* operation of another method used the same callback name.
C7_OnlyOwnValues ==
    \A o \in objs :
        (Returned(o) /\ result[o].kind = "list") =>
            /\ \A i \in 1..Len(result[o].list) :
                  result[o].list[i].op = call_id[o]
            /\ \A i, j \in 1..Len(result[o].list) :
                  result[o].list[i] = result[o].list[j] => i = j

\* get_card_info_by_index returned a value after an earlier operation had
\* returned values under the same callback name
C7_Witness ==
    \E o \in objs :
        /\ Returned(o)
        /\ cur[o] = "get_card_info_by_index"
        /\ Len(result[o].list) = 1
        /\ at_register[o].handed
        /\ call_id[o] = 3

C9_StateIsLastNotified ==
    \A o \in objs : notified[o] => state[o] = ctx_state[o]

\* a second notification took the state back to unconnected
C9_Witness ==
    \E o \in objs :
        /\ notified[o]
        /\ nnotes = 2
        /\ state[o] = PA_CONTEXT_UNCONNECTED

\* C10: once the context tier exists and before any notification, the state
\* reads unconnected.
C10_StartsUnconnected ==
    \A o \in objs :
        (handles[o].context # 0 /\ ~notified[o]) =>
            state[o] = PA_CONTEXT_UNCONNECTED

\* the caller of o is inside connect or disconnect, waiting
Waiting(o) == pc[o] = "wait_state"

\* C11: connect and disconnect have no failure escape: a step of a waiting
\* caller that does not leave the state at the required one leaves the
\* caller waiting, with no result and no error, whatever the state is
\* (failed included); a call that finds another state starts to wait.
C11_NoEscapeFromWait ==
    [][\A o \in objs :
          /\ (Waiting(o) /\ state'[o] # required_state(cur[o])) =>
                (Waiting(o)' /\ result'[o] = Running /\ cur'[o] = cur[o])
          /\ \A m \in {"connect", "disconnect"} :
                (Entering(o, m) /\ result'[o].kind # "NameError"
                    /\ state[o] # required_state(m)) =>
                    (Waiting(o)' /\ result'[o] = Running)]_vars

\* connect is still pumping after the notifications ended in failed
C11_Witness ==
    \E o \in objs :
        /\ Waiting(o)
        /\ cur[o] = "connect"
        /\ trace[o].pumped
        /\ state[o] = PA_CONTEXT_FAILED
        /\ nnotes = limits.notes

\* C12: connect or disconnect on an object without an application name and
\* without a context raises at once: the caller does not pump, no tier is
\* built, no adapter is installed, the state and the registry are unchanged.
C12_NoNameRaisesAndBuildsNothing ==
    [][\A o \in objs : \A m \in {"connect", "disconnect"} :
          (Entering(o, m) /\ app_name[o] = NoName /\ handles[o].context = 0) =>
              /\ result'[o] = Raise("NameError")
              /\ pc'[o] = "idle"
              /\ handles' = handles
              /\ lib' = lib
              /\ state' = state
              /\ ctx_state' = ctx_state
              /\ cb_event' = cb_event
              /\ cb_return' = cb_return
              /\ pending' = pending]_vars

\* disconnect raised NameError and nothing was built
C12_Witness ==
    \E o \in objs :
        /\ pc[o] = "idle"
        /\ cur[o] = "disconnect"
        /\ result[o] = Raise("NameError")
        /\ handles[o] = [main_loop |-> 0, api |-> 0, context |-> 0]
        /\ lib[o].loops = 0

\* the handles of o that had been built when the current call was entered
\* are still the same handles
HandlesKept(o) ==
    /\ at_call[o].handles.main_loop # 0 =>
          handles[o].main_loop = at_call[o].handles.main_loop
    /\ at_call[o].handles.api # 0 => handles[o].api = at_call[o].handles.api
    /\ at_call[o].handles.context # 0 =>
          handles[o].context = at_call[o].handles.context

\* C13: disconnect tears nothing down: when it returns, the loop, the api
\* and the context are built, they are the handles that were cached before
\* the call, the native objects are the ones created then, and the registry
\* is as the call found it; the state is terminated.
C13_DisconnectKeepsHandles ==
    \A o \in objs :
        (pc[o] = "idle" /\ cur[o] = "disconnect" /\ result[o] = ReturnNone) =>
            /\ HandlesKept(o)
            /\ handles[o].main_loop # 0
            /\ handles[o].api # 0
            /\ handles[o].context # 0
            /\ cb_event = at_call[o].E
            /\ cb_return = at_call[o].R
            /\ state[o] = PA_CONTEXT_TERMINATED

\* disconnect returned on an object that was connected before the call
C13_Witness ==
    \E o \in objs :
        /\ pc[o] = "idle"
        /\ cur[o] = "disconnect"
        /\ result[o] = ReturnNone
        /\ at_call[o].state = PA_CONTEXT_READY
        /\ at_call[o].handles = [main_loop |-> 1, api |-> 1, context |-> 1]
        /\ trace[o].pumped

\* C14: the tiers are nested (api only with the loop, context only with the
\* api), each is built at most once, and the adapter is installed once, with
\* the context.
C14_TiersNestedAndBuiltOnce ==
    \A o \in objs :
        /\ handles[o].api # 0 => handles[o].main_loop # 0
        /\ handles[o].context # 0 => handles[o].api # 0
        /\ lib[o].loops = (IF handles[o].main_loop # 0 THEN 1 ELSE 0)
        /\ lib[o].apis = (IF handles[o].api # 0 THEN 1 ELSE 0)
        /\ lib[o].contexts = (IF handles[o].context # 0 THEN 1 ELSE 0)
        /\ lib[o].state_callbacks = lib[o].contexts

\* the third call on an object whose tiers were built by the first
C14_Witness ==
    \E o \in objs :
        /\ call_id[o] = 3
        /\ cur[o] \in {"connect", "disconnect"}
        /\ result[o].kind # "NameError"
        /\ handles[o].context # 0
        /\ lib[o].state_callbacks = 1

\* the caller of o is inside a wait_callback method, past the guard
InFacade(o) == pc[o] \in {"submit", "iterate", "check"}

C16_ActionOnceBeforePumping ==
    [][\A o \in objs :
          /\ \A m \in {"connect", "disconnect"} :
                (Entering(o, m) /\ result'[o].kind # "NameError") =>
                    /\ trace'[o].acts = 1
                    /\ ~trace'[o].pumped
                    /\ state[o] = required_state(m) =>
                          (pc'[o] = "idle" /\ result'[o] = ReturnNone)
          /\ Waiting(o) => trace'[o].acts = trace[o].acts]_vars

\* connect returned on a connected object: the action ran, nothing was pumped
C16_Witness ==
    \E o \in objs :
        /\ pc[o] = "idle"
        /\ cur[o] = "connect"
        /\ result[o] = ReturnNone
        /\ at_call[o].state = PA_CONTEXT_READY
        /\ trace[o].acts = 1
        /\ ~trace[o].pumped

\* C17: after an operation has returned its results, the registry holds
\* nothing under its name: no results and no flag that reads true.
C17_NoEntryAfterReturn ==
    \A o \in objs :
        (Returned(o) /\ result[o].kind = "list") =>
            /\ wait_callback_name(cur[o]) \notin DOMAIN cb_return
            /\ ~DictGet(cb_event, wait_callback_name(cur[o]), FALSE)

\* C18: self.state changes only in an iteration that dispatches a
\* state-change notification, to the state the notification carries; the
\* entry of a call, the submission, the test and the drain leave it alone.
C18_StateChangedOnlyByHandler ==
    [][\A o \in objs :
          /\ state'[o] # state[o] =>
                /\ pc[o] \in {"wait_state", "iterate"}
                /\ nnotes' > nnotes
                /\ notified'[o]
                /\ state'[o] = ctx_state'[o]
          /\ (pc[o] \in {"idle", "submit", "check"}) => state'[o] = state[o]]_vars

\* a notification dispatched while an operation pumps took the state from
\* ready
C18_Witness ==
    \E o \in objs :
        /\ pc[o] = "check"
        /\ at_call[o].state = PA_CONTEXT_READY
        /\ state[o] = PA_CONTEXT_TERMINATED
        /\ nnotes = limits.notes

\* C19: an operation that is pumped until the native layer made the
\* terminal invocation leaves the wait at its next test and returns the
\* values fired for it, however many (none included).
C19_SignalledOperationReturns ==
    [][\A o \in objs :
          (pc[o] = "check" /\ signalled[o] /\ pc'[o] # pc[o]) =>
              (pc'[o] = "idle" /\ result'[o] = ReturnList(fired[o]))]_vars

\* C20: the state is read once, by the guard: a step of an operation that
\* has not had its terminal invocation leaves it in the wait, without a
\* result and without an error, whatever the state has become.
C20_StateChangeCannotEndWait ==
    [][\A o \in objs :
          (InFacade(o) /\ ~signalled'[o]) =>
              (InFacade(o)' /\ result'[o] = Running /\ cur'[o] = cur[o])]_vars

\* an operation still pumps after the state went from ready to failed
C20_Witness ==
    \E o \in objs :
        /\ pc[o] = "iterate"
        /\ trace[o].pumped
        /\ ~signalled[o]
        /\ state[o] = PA_CONTEXT_FAILED

\* the step is taken by the caller of o
StepOf(o) == pc'[o] # pc[o] \/ call_id'[o] # call_id[o]

\* C21: each object has a registry of its own: while an operation is in
\* flight on p, no step of another object o (its register, a push or a
\* signal_done dispatched in its iteration, its drain) changes the flag or
\* the results under the name p waits on.
C21_RegistryPerObject ==
    [][\A o \in objs : \A p \in objs \ {o} :
          (StepOf(o) /\ InFacade(p)) =>
              LET name == wait_callback_name(cur[p])
              IN /\ DictGet(cb_event', name, FALSE)
                       = DictGet(cb_event, name, FALSE)
                 /\ DictGet(cb_return', name, <<>>)
                       = DictGet(cb_return, name, <<>>)]_vars

====
